---------------------------- MODULE Spec2Model ----------------------------
(***************************************************************************)
(* A model of futures-util's TryJoinAll combinator (future/try_join_all.rs) *)
(* and of the ResultFuture adapter (future/result.rs).                      *)
(*                                                                          *)
(* An operand is an asynchronous operation that resolves to Ok(val) or      *)
(* Err(val).  Time is counted in poll cycles of the owning future: operand  *)
(* `op` answers Pending to a poll made in a cycle before op.at and its      *)
(* result to a poll made in cycle op.at or later.                           *)
(***************************************************************************)
EXTENDS Integers, Sequences, FiniteSets, TLC

\* ------------------------------------------------------------------ bounds
MaxOps == 3      \* operands handed to try_join_all: 0..MaxOps
MaxDelay == 2    \* an operand resolves in cycle 0..MaxDelay
MaxPolls == 4    \* polls made of one future

Values == {1, 2}     \* success outputs (F::Ok)
Errors == {8, 9}     \* error values (F::Error)

\* join_all::SMALL, the small-batch threshold read at try_join_all.rs:122
SMALL == 30

\* ---------------------------------------------------------------- operands
Operands ==
    [res : {"Ok"}, val : Values, at : 0..MaxDelay] \cup
    [res : {"Err"}, val : Errors, at : 0..MaxDelay]

\* A placeholder for the `fut` field of a slot that no longer owns its operation.
NoFut == [res |-> "Ok", val |-> 0, at |-> 0]

\* Poll<Result<(), E>> / Poll<Result<T, E>> of one operand or slot.
PollPending == [tag |-> "Pending", val |-> 0]
PollOk(v) == [tag |-> "Ok", val |-> v]
PollErr(e) == [tag |-> "Err", val |-> e]

\* F::try_poll of operand `op` in poll cycle `c`.
OpPoll(op, c) ==
    IF c < op.at THEN PollPending
    ELSE IF op.res = "Ok" THEN PollOk(op.val) ELSE PollErr(op.val)

\* ---------------------------------------------------- results of TryJoinAll
\* Poll<Result<Vec<F::Ok>, F::Error>>, and "Panic" for a poll that faults.
Pending == [tag |-> "Pending", vals |-> <<>>, err |-> 0, msg |-> ""]
ReadyOk(vs) == [tag |-> "Ok", vals |-> vs, err |-> 0, msg |-> ""]
ReadyErr(e) == [tag |-> "Err", vals |-> <<>>, err |-> e, msg |-> ""]
Panic(m) == [tag |-> "Panic", vals |-> <<>>, err |-> 0, msg |-> m]

IsFinal(r) == r.tag \in {"Ok", "Err"}

\* ------------------------------------------------ completion slot (external)
\* TryMaybeDone<F>: Future(fut) | Done(output) | Gone.
SlotFuture(op) == [st |-> "Future", fut |-> op, output |-> 0]
SlotDone(v) == [st |-> "Done", fut |-> NoFut, output |-> v]
SlotGone == [st |-> "Gone", fut |-> NoFut, output |-> 0]

\* TryMaybeDone::poll: a Future slot polls its operation once; success stores
\* the output (Done); failure hands the error back and the slot does not become
\* Done; a settled slot is left alone and answers Ready(Ok(())).
TryMaybeDone_poll(slot, c) ==
    IF slot.st = "Future"
    THEN LET r == OpPoll(slot.fut, c)
         IN  CASE r.tag = "Pending" -> [slot |-> slot, r |-> PollPending, polled |-> TRUE]
               [] r.tag = "Ok" -> [slot |-> SlotDone(r.val), r |-> PollOk(0), polled |-> TRUE]
               [] r.tag = "Err" -> [slot |-> slot, r |-> PollErr(r.val), polled |-> TRUE]
    ELSE [slot |-> slot, r |-> PollOk(0), polled |-> FALSE]

\* TryMaybeDone::take_output: Some(output) of a Done slot, which becomes Gone;
\* None (some = FALSE) of any other slot.
take_output(slot) ==
    IF slot.st = "Done"
    THEN [slot |-> SlotGone, some |-> TRUE, val |-> slot.output]
    ELSE [slot |-> slot, some |-> FALSE, val |-> 0]

\* --------------------------------------------------------- the Small path
\* enum FinalState
FS_Pending == [tag |-> "Pending", err |-> 0]
FS_AllDone == [tag |-> "AllDone", err |-> 0]
FS_Error(e) == [tag |-> "Error", err |-> e]

\* Scan with the failure arm waiting for the slots that answered Pending.
RECURSIVE ScanWaits(_, _, _, _, _)
ScanWaits(elems, i, state, polled, c) ==
    IF i > Len(elems)
    THEN [elems |-> elems, state |-> state, polled |-> polled,
          visited |-> Len(elems)]
    ELSE LET p == TryMaybeDone_poll(elems[i], c)
             es == [elems EXCEPT ![i] = p.slot]
             pl == IF p.polled THEN Append(polled, i) ELSE polled
         IN  CASE p.r.tag = "Pending" -> ScanWaits(es, i + 1, FS_Pending, pl, c)
               [] p.r.tag = "Ok" -> ScanWaits(es, i + 1, state, pl, c)
               [] p.r.tag = "Err" ->
                    IF state.tag = "Pending"
                    THEN ScanWaits(es, i + 1, state, pl, c)
                    ELSE [elems |-> es, state |-> FS_Error(p.r.val), polled |-> pl,
                          visited |-> i]

\* Scan with the `break` of the failure arm left out.
RECURSIVE ScanNoBreak(_, _, _, _, _)
ScanNoBreak(elems, i, state, polled, c) ==
    IF i > Len(elems)
    THEN [elems |-> elems, state |-> state, polled |-> polled,
          visited |-> Len(elems)]
    ELSE LET p == TryMaybeDone_poll(elems[i], c)
             es == [elems EXCEPT ![i] = p.slot]
             pl == IF p.polled THEN Append(polled, i) ELSE polled
         IN  CASE p.r.tag = "Pending" -> ScanNoBreak(es, i + 1, FS_Pending, pl, c)
               [] p.r.tag = "Ok" -> ScanNoBreak(es, i + 1, state, pl, c)
               [] p.r.tag = "Err" -> ScanNoBreak(es, i + 1, FS_Error(p.r.val), pl, c)

\* Scan with the Pending arm leaving the accumulator alone.
RECURSIVE ScanIgnorePending(_, _, _, _, _)
ScanIgnorePending(elems, i, state, polled, c) ==
    IF i > Len(elems)
    THEN [elems |-> elems, state |-> state, polled |-> polled,
          visited |-> Len(elems)]
    ELSE LET p == TryMaybeDone_poll(elems[i], c)
             es == [elems EXCEPT ![i] = p.slot]
             pl == IF p.polled THEN Append(polled, i) ELSE polled
         IN  CASE p.r.tag = "Pending" -> ScanIgnorePending(es, i + 1, state, pl, c)
               [] p.r.tag = "Ok" -> ScanIgnorePending(es, i + 1, state, pl, c)
               [] p.r.tag = "Err" ->
                    [elems |-> es, state |-> FS_Error(p.r.val), polled |-> pl,
                     visited |-> i]

\* Scan with a slot that answered Pending polled a second time in the cycle.
RECURSIVE ScanRepoll(_, _, _, _, _)
ScanRepoll(elems, i, state, polled, c) ==
    IF i > Len(elems)
    THEN [elems |-> elems, state |-> state, polled |-> polled,
          visited |-> Len(elems)]
    ELSE LET p == TryMaybeDone_poll(elems[i], c)
             es == [elems EXCEPT ![i] = p.slot]
             pl == IF p.polled THEN Append(polled, i) ELSE polled
         IN  CASE p.r.tag = "Pending" ->
                    ScanRepoll(es, i + 1, FS_Pending, Append(pl, i), c)
               [] p.r.tag = "Ok" -> ScanRepoll(es, i + 1, state, pl, c)
               [] p.r.tag = "Err" ->
                    [elems |-> es, state |-> FS_Error(p.r.val), polled |-> pl,
                     visited |-> i]

\* The scan of TryJoinAll::poll (the `for elem in iter_pin_mut(elems)` loop),
\* from slot i on, with the accumulator `state`; `polled` collects the indices
\* of the slots whose operation was polled, `visited` is the number of slots
\* try_poll was called on.
RECURSIVE Scan(_, _, _, _, _)
Scan(elems, i, state, polled, c) ==
    IF i > Len(elems)
    THEN [elems |-> elems, state |-> state, polled |-> polled,
          visited |-> Len(elems)]
    ELSE LET p == TryMaybeDone_poll(elems[i], c)
             es == [elems EXCEPT ![i] = p.slot]
             pl == IF p.polled THEN Append(polled, i) ELSE polled
         IN  CASE p.r.tag = "Pending" -> Scan(es, i + 1, FS_Pending, pl, c)
               [] p.r.tag = "Ok" -> Scan(es, i + 1, state, pl, c)
               [] p.r.tag = "Err" ->
                    [elems |-> es, state |-> FS_Error(p.r.val), polled |-> pl,
                     visited |-> i]

\* Extract collecting the outputs from the last slot to the first.
ExtractReversed(elems) ==
    LET n == Len(elems)
        taken == [i \in 1..n |-> take_output(elems[i])]
    IN  IF \A i \in 1..n : taken[i].some
        THEN ReadyOk([i \in 1..n |-> taken[n + 1 - i].val])
        ELSE Panic("called Option::unwrap() on a None value")

\* The FinalState::AllDone arm: the outputs of the slots in index order; the
\* unwrap faults when some slot has no output to give.
Extract(elems) ==
    LET taken == [i \in 1..Len(elems) |-> take_output(elems[i])]
    IN  IF \A i \in 1..Len(elems) : taken[i].some
        THEN ReadyOk([i \in 1..Len(elems) |-> taken[i].val])
        ELSE Panic("called Option::unwrap() on a None value")

\* The take_output calls the FinalState::AllDone arm makes, in order, each with
\* the state its slot was in: one per slot, up to the first whose unwrap faults.
TakeCalls(elems) ==
    LET bad == {i \in 1..Len(elems) : ~take_output(elems[i]).some}
        last == IF bad = {} THEN Len(elems)
                ELSE CHOOSE i \in bad : \A j \in bad : i <= j
    IN  [i \in 1..last |-> [idx |-> i, st |-> elems[i].st]]

\* The least and the greatest element of a non-empty set of integers.
SetMin(S) == CHOOSE x \in S : \A y \in S : x <= y
SetMax(S) == CHOOSE x \in S : \A y \in S : x >= y

\* PollSmall with the accumulator starting at FinalState::Pending.
PollSmallInitPending(elems, c) ==
    LET s == Scan(elems, 1, FS_Pending, <<>>, c)
    IN  CASE s.state.tag = "Pending" ->
               [elems |-> s.elems, res |-> Pending,
                polled |-> s.polled, visited |-> s.visited,
                state |-> "Pending", taken |-> <<>>]
          [] s.state.tag = "AllDone" ->
               [elems |-> <<>>, res |-> Extract(s.elems),
                polled |-> s.polled, visited |-> s.visited,
                state |-> "AllDone", taken |-> TakeCalls(s.elems)]
          [] s.state.tag = "Error" ->
               [elems |-> <<>>, res |-> ReadyErr(s.state.err),
                polled |-> s.polled, visited |-> s.visited,
                state |-> "Error", taken |-> <<>>]

\* PollSmall with the Error arm leaving elems in place.
PollSmallKeepOnError(elems, c) ==
    LET s == Scan(elems, 1, FS_AllDone, <<>>, c)
    IN  CASE s.state.tag = "Pending" ->
               [elems |-> s.elems, res |-> Pending,
                polled |-> s.polled, visited |-> s.visited,
                state |-> "Pending", taken |-> <<>>]
          [] s.state.tag = "AllDone" ->
               [elems |-> <<>>, res |-> Extract(s.elems),
                polled |-> s.polled, visited |-> s.visited,
                state |-> "AllDone", taken |-> TakeCalls(s.elems)]
          [] s.state.tag = "Error" ->
               [elems |-> s.elems, res |-> ReadyErr(s.state.err),
                polled |-> s.polled, visited |-> s.visited,
                state |-> "Error", taken |-> <<>>]

\* PollSmall with the AllDone arm taking the outputs in place, without the
\* mem::replace of elems.
PollSmallTakesInPlace(elems, c) ==
    LET s == Scan(elems, 1, FS_AllDone, <<>>, c)
    IN  CASE s.state.tag = "Pending" ->
               [elems |-> s.elems, res |-> Pending,
                polled |-> s.polled, visited |-> s.visited,
                state |-> "Pending", taken |-> <<>>]
          [] s.state.tag = "AllDone" ->
               [elems |-> [i \in 1..Len(s.elems) |-> take_output(s.elems[i]).slot],
                res |-> Extract(s.elems),
                polled |-> s.polled, visited |-> s.visited,
                state |-> "AllDone", taken |-> TakeCalls(s.elems)]
          [] s.state.tag = "Error" ->
               [elems |-> <<>>, res |-> ReadyErr(s.state.err),
                polled |-> s.polled, visited |-> s.visited,
                state |-> "Error", taken |-> <<>>]

\* PollSmall with the Pending arm dropping the outputs already stored.
PollSmallDropsOnPending(elems, c) ==
    LET s == Scan(elems, 1, FS_AllDone, <<>>, c)
    IN  CASE s.state.tag = "Pending" ->
               [elems |-> [i \in 1..Len(s.elems) |->
                              IF s.elems[i].st = "Done" THEN SlotGone ELSE s.elems[i]],
                res |-> Pending,
                polled |-> s.polled, visited |-> s.visited,
                state |-> "Pending", taken |-> <<>>]
          [] s.state.tag = "AllDone" ->
               [elems |-> <<>>, res |-> Extract(s.elems),
                polled |-> s.polled, visited |-> s.visited,
                state |-> "AllDone", taken |-> TakeCalls(s.elems)]
          [] s.state.tag = "Error" ->
               [elems |-> <<>>, res |-> ReadyErr(s.state.err),
                polled |-> s.polled, visited |-> s.visited,
                state |-> "Error", taken |-> <<>>]

\* PollSmall reporting success one cycle after the last operand resolved.
PollSmallLate(elems, c) ==
    LET s == Scan(elems, 1, FS_AllDone, <<>>, c)
    IN  CASE s.state.tag = "Pending" ->
               [elems |-> s.elems, res |-> Pending,
                polled |-> s.polled, visited |-> s.visited,
                state |-> "Pending", taken |-> <<>>]
          [] s.state.tag = "AllDone" /\ s.polled # <<>> ->
               [elems |-> s.elems, res |-> Pending,
                polled |-> s.polled, visited |-> s.visited,
                state |-> "AllDone", taken |-> <<>>]
          [] s.state.tag = "AllDone" /\ s.polled = <<>> ->
               [elems |-> <<>>, res |-> Extract(s.elems),
                polled |-> s.polled, visited |-> s.visited,
                state |-> "AllDone", taken |-> TakeCalls(s.elems)]
          [] s.state.tag = "Error" ->
               [elems |-> <<>>, res |-> ReadyErr(s.state.err),
                polled |-> s.polled, visited |-> s.visited,
                state |-> "Error", taken |-> <<>>]

\* TryJoinAll::poll, the Small arm, in poll cycle c.
PollSmall(elems, c) ==
    LET s == Scan(elems, 1, FS_AllDone, <<>>, c)
    IN  CASE s.state.tag = "Pending" ->
               [elems |-> s.elems, res |-> Pending,
                polled |-> s.polled, visited |-> s.visited,
                state |-> "Pending", taken |-> <<>>]
          [] s.state.tag = "AllDone" ->
               [elems |-> <<>>, res |-> Extract(s.elems),
                polled |-> s.polled, visited |-> s.visited,
                state |-> "AllDone", taken |-> TakeCalls(s.elems)]
          [] s.state.tag = "Error" ->
               [elems |-> <<>>, res |-> ReadyErr(s.state.err),
                polled |-> s.polled, visited |-> s.visited,
                state |-> "Error", taken |-> <<>>]

\* ----------------------------------------------- the Big path (external)
\* TryCollect<FuturesOrdered<F>, Vec<F::Ok>>: the operations still in progress,
\* each tagged with its original position; the outputs received so far, tagged
\* likewise; and whether the final outcome has been reported.
BigNew(ops) ==
    [queue |-> {[idx |-> i, fut |-> ops[i]] : i \in 1..Len(ops)},
     outputs |-> {},
     terminated |-> FALSE]
BigNone == [queue |-> {}, outputs |-> {}, terminated |-> FALSE]

\* The outputs, ordered by original position.
InOrder(outputs) ==
    [i \in 1..Cardinality(outputs) |-> (CHOOSE o \in outputs : o.idx = i).val]

\* One poll of the unbounded driver in cycle c: every operation in progress is
\* polled; a failure short-circuits (the lowest position first) and abandons the
\* rest; completions are kept by position; once nothing is in progress the
\* ordered outputs are the result.  A poll after the final outcome faults.
PollBig(fut, c) ==
    IF fut.terminated
    THEN [fut |-> fut, res |-> Panic("polled after completion")]
    ELSE LET failed == {x \in fut.queue : OpPoll(x.fut, c).tag = "Err"}
             completed == {x \in fut.queue : OpPoll(x.fut, c).tag = "Ok"}
             outs == fut.outputs \cup
                     {[idx |-> x.idx, val |-> OpPoll(x.fut, c).val] : x \in completed}
             first == CHOOSE x \in failed : \A y \in failed : x.idx <= y.idx
         IN  IF failed # {}
             THEN [fut |-> [queue |-> {}, outputs |-> {}, terminated |-> TRUE],
                   res |-> ReadyErr(OpPoll(first.fut, c).val)]
             ELSE IF fut.queue \ completed = {}
             THEN [fut |-> [queue |-> {}, outputs |-> {}, terminated |-> TRUE],
                   res |-> ReadyOk(InOrder(outs))]
             ELSE [fut |-> [queue |-> fut.queue \ completed, outputs |-> outs,
                            terminated |-> FALSE],
                   res |-> Pending]

\* ------------------------------------------------------------ the aggregator
\* enum TryJoinAllKind
KindSmall(elems) == [tag |-> "Small", elems |-> elems, fut |-> BigNone]
KindBig(fut) == [tag |-> "Big", elems |-> <<>>, fut |-> fut]

\* iter.size_hint().1
HintNone == [some |-> FALSE, max |-> 0]
HintSome(m) == [some |-> TRUE, max |-> m]

\* try_join_all with the threshold test written `max < SMALL`.
try_join_all_lt(ops, hint) ==
    IF ~hint.some
    THEN KindBig(BigNew(ops))
    ELSE IF hint.max < SMALL
         THEN KindSmall([i \in 1..Len(ops) |-> SlotFuture(ops[i])])
         ELSE KindBig(BigNew(ops))

\* try_join_all(iter): the representation is picked from the upper size hint.
try_join_all(ops, hint) ==
    IF ~hint.some
    THEN KindBig(BigNew(ops))
    ELSE IF hint.max <= SMALL
         THEN KindSmall([i \in 1..Len(ops) |-> SlotFuture(ops[i])])
         ELSE KindBig(BigNew(ops))

\* What one poll of the Small arm did: the slots whose operation it polled, the
\* FinalState its scan ended in, the take_output calls it made.  The Big arm
\* scans no slots.
NoScan == [polled |-> <<>>, visited |-> 0, state |-> "", taken |-> <<>>]

\* TryJoinAll::poll in cycle c: match &mut self.kind.
TryJoinAll_poll(k, c) ==
    IF k.tag = "Small"
    THEN LET p == PollSmall(k.elems, c)
         IN  [kind |-> KindSmall(p.elems), res |-> p.res,
              scan |-> [polled |-> p.polled, visited |-> p.visited,
                        state |-> p.state, taken |-> p.taken]]
    ELSE LET p == PollBig(k.fut, c)
         IN  [kind |-> KindBig(p.fut), res |-> p.res, scan |-> NoScan]

\* ----------------------------------------------------------- ResultFuture
\* The operation F a success holds: it yields val from cycle `at` on, and is
\* terminated once it has yielded.
Operations == [at : 0..MaxDelay, val : Values, terminated : {FALSE}]
NoOperation == [at |-> 0, val |-> 0, terminated |-> TRUE]

\* What an operation may answer to a poll made after it has yielded: the
\* Future contract leaves it open.
AfterCompletion == {"Panic", "Pending", "Ready"}

\* Poll<Result<F::Output, E>> of a ResultFuture, and "Panic" for a fault.
RPending == [tag |-> "Pending", val |-> 0, msg |-> ""]
RReady(v) == [tag |-> "Ready", val |-> v, msg |-> ""]
RReadyOk(v) == [tag |-> "Ok", val |-> v, msg |-> ""]
RReadyErr(e) == [tag |-> "Err", val |-> e, msg |-> ""]
RPanic(m) == [tag |-> "Panic", val |-> 0, msg |-> m]

\* F::poll in cycle c; `after` is the operation's answer when it is polled
\* after completion.
FPoll(f, c, after) ==
    IF f.terminated
    THEN [fut |-> f,
          res |-> CASE after = "Panic" -> RPanic("operation polled after completion")
                    [] after = "Pending" -> RPending
                    [] after = "Ready" -> RReady(f.val)]
    ELSE IF c < f.at
         THEN [fut |-> f, res |-> RPending]
         ELSE [fut |-> [f EXCEPT !.terminated = TRUE], res |-> RReady(f.val)]

\* Result<F, E>, the argument of From::from.
ResOk(f) == [tag |-> "Ok", fut |-> f, err |-> 0]
ResErr(e) == [tag |-> "Err", fut |-> NoOperation, err |-> e]

\* ResultFuture.inner : Result<F, Option<E>>
InnerOk(f) == [tag |-> "Ok", fut |-> f, some |-> FALSE, err |-> 0]
InnerErr(e) == [tag |-> "Err", fut |-> NoOperation, some |-> TRUE, err |-> e]
InnerErrNone == [tag |-> "Err", fut |-> NoOperation, some |-> FALSE, err |-> 0]

\* From<Result<F, E>>::from: Self { inner: result.map_err(Some) }
ResultFuture_from(result) ==
    IF result.tag = "Ok" THEN InnerOk(result.fut) ELSE InnerErr(result.err)

\* ResultFuture::poll with the Err arm leaving the error in place.
ResultFuture_poll_keep(in, c, after) ==
    IF in.tag = "Ok"
    THEN LET p == FPoll(in.fut, c, after)
         IN  [inner |-> InnerOk(p.fut),
              res |-> IF p.res.tag = "Ready" THEN RReadyOk(p.res.val) ELSE p.res]
    ELSE IF in.some
         THEN [inner |-> in, res |-> RReadyErr(in.err)]
         ELSE [inner |-> in, res |-> RPanic("polled ResultFuture after completion")]

\* ResultFuture::poll with the Ok arm answering with the operation's value
\* without polling the operation.
ResultFuture_poll_eager(in, c, after) ==
    IF in.tag = "Ok"
    THEN [inner |-> in, res |-> RReadyOk(in.fut.val)]
    ELSE IF in.some
         THEN [inner |-> InnerErrNone, res |-> RReadyErr(in.err)]
         ELSE [inner |-> in, res |-> RPanic("polled ResultFuture after completion")]

\* ResultFuture::poll in cycle c: Ok(x) => x.poll(cx).map(Ok);
\* Err(e) => Ready(Err(e.take().expect("polled `ResultFuture` after completion"))).
ResultFuture_poll(in, c, after) ==
    IF in.tag = "Ok"
    THEN LET p == FPoll(in.fut, c, after)
         IN  [inner |-> InnerOk(p.fut),
              res |-> IF p.res.tag = "Ready" THEN RReadyOk(p.res.val) ELSE p.res]
    ELSE IF in.some
         THEN [inner |-> InnerErrNone, res |-> RReadyErr(in.err)]
         ELSE [inner |-> in, res |-> RPanic("polled ResultFuture after completion")]

\* FusedFuture::is_terminated: Ok(x) => x.is_terminated(), Err(_) => true.
is_terminated(in) == IF in.tag = "Ok" THEN in.fut.terminated ELSE TRUE

\* ------------------------------------------------------------------- state
VARIABLES
    ops,    \* the operands handed to try_join_all, in submission order
    hint,   \* the upper size hint of the iterator they came from
    kind,   \* TryJoinAll.kind
    hist,   \* what each poll of the TryJoinAll returned, oldest first
    log,    \* what each poll of the TryJoinAll did to its slots, oldest first
    source, \* the Result a ResultFuture was made from
    inner,  \* ResultFuture.inner
    rhist   \* what each poll of the ResultFuture returned, oldest first

tjaVars == <<ops, hint, kind, hist, log>>
rfVars == <<source, inner, rhist>>
vars == <<ops, hint, kind, hist, log, source, inner, rhist>>

\* The poll cycle the next poll is made in.
Cycle == Len(hist)

OperandSeqs == UNION {[1..n -> Operands] : n \in 0..MaxOps}

\* The upper size hints tried: absent, at the threshold, above it.  (An upper
\* bound may exceed the number of items the iterator goes on to yield.)
Hints == {HintNone, HintSome(SMALL), HintSome(SMALL + 1)}

\* try_join_all over any operands and size hint.
InitTryJoinAll ==
    /\ ops \in OperandSeqs
    /\ hint \in Hints
    /\ kind = try_join_all(ops, hint)
    /\ hist = <<>>
    /\ log = <<>>

\* A ResultFuture made from any Result.
InitResultFuture ==
    /\ source \in {ResOk(f) : f \in Operations} \cup {ResErr(e) : e \in Errors}
    /\ inner = ResultFuture_from(source)
    /\ rhist = <<>>

\* The object a specification is not about: an empty join, an Err(()) future.
NoTryJoinAll ==
    /\ ops = <<>>
    /\ hint = HintSome(0)
    /\ kind = try_join_all(ops, hint)
    /\ hist = <<>>
    /\ log = <<>>
NoResultFuture ==
    /\ source = ResErr(SetMin(Errors))
    /\ inner = ResultFuture_from(source)
    /\ rhist = <<>>

Init == InitTryJoinAll /\ NoResultFuture

\* The scheduler polls the TryJoinAll once more.
Poll ==
    /\ Len(hist) < MaxPolls
    /\ LET p == TryJoinAll_poll(kind, Cycle)
       IN  /\ kind' = p.kind
           /\ hist' = Append(hist, p.res)
           /\ log' = Append(log, p.scan)
    /\ UNCHANGED <<ops, hint>>
    /\ UNCHANGED rfVars

Next == Poll

Spec == Init /\ [][Next]_vars

\* The scheduler polls the ResultFuture once more.
RPoll ==
    /\ Len(rhist) < MaxPolls
    /\ \E after \in AfterCompletion :
           LET p == ResultFuture_poll(inner, Len(rhist), after)
           IN  /\ inner' = p.inner
               /\ rhist' = Append(rhist, p.res)
    /\ UNCHANGED source
    /\ UNCHANGED tjaVars

InitRF == NoTryJoinAll /\ InitResultFuture
NextRF == RPoll
SpecRF == InitRF /\ [][NextRF]_vars

\* Poll can be taken: it always lengthens hist, so ENABLED <<Poll>>_vars is its
\* guard.
PollEnabled == Len(hist) < MaxPolls

\* The TryJoinAll under a scheduler that keeps polling it: weak fairness of
\* Poll, WF_vars(Poll), written out with PollEnabled for ENABLED <<Poll>>_vars.
SpecLive == Init /\ [][Next]_vars /\ (<>[]PollEnabled => []<><<Poll>>_vars)

\* PollEnabled is exactly the enabledness that WF_vars(Poll) speaks of.
PollEnabledIsEnabled == PollEnabled <=> ENABLED <<Poll>>_vars

\* ------------------------------------------------------- what the claims use
N == Len(ops)

AllSucceed == \A i \in 1..N : ops[i].res = "Ok"
Failing == {i \in 1..N : ops[i].res = "Err"}
\* The last cycle in which some operand is still pending, plus one.
LastAt == IF N = 0 THEN 0 ELSE SetMax({ops[i].at : i \in 1..N})
\* The earliest cycle in which a failure is observable, and the lowest-index
\* operand failing in it.
FirstFailCycle == SetMin({ops[i].at : i \in Failing})
FirstFailIdx == SetMin({i \in Failing : ops[i].at = FirstFailCycle})

\* The polls that returned a final outcome, and the first of them.
FinalsOf(h) == {k \in 1..Len(h) : IsFinal(h[k])}
Finals == FinalsOf(hist)
FirstFinal == SetMin(Finals)
Outputs == [i \in 1..N |-> ops[i].val]

\* The outcomes of the polls of cycles c..m-1 of a TryJoinAll in state k.
RECURSIVE Run(_, _, _)
Run(k, c, m) ==
    IF c >= m THEN <<>>
    ELSE LET p == TryJoinAll_poll(k, c) IN <<p.res>> \o Run(p.kind, c + 1, m)
\* A sequence of poll outcomes up to and including the final one.
UpToFinal(h) == IF FinalsOf(h) = {} THEN h ELSE SubSeq(h, 1, SetMin(FinalsOf(h)))

\* C1: when every operand succeeds, whatever the order they complete in, a
\* final outcome is reported once all have resolved, it is success, and
\* position i of its output holds the output of the operand submitted at i.
C1_OrderedSuccess ==
    AllSucceed =>
        /\ Len(hist) > LastAt => Finals # {}
        /\ Finals # {} => hist[FirstFinal] = ReadyOk(Outputs)

\* C1 witness: three operands completing in reverse order on the Small path,
\* with different outputs, joined successfully.
C1_Witness ==
    /\ N = 3 /\ AllSucceed /\ kind.tag = "Small"
    /\ ops[1].at > ops[2].at /\ ops[2].at > ops[3].at
    /\ ops[1].val # ops[3].val
    /\ Finals # {} /\ hist[FirstFinal].tag = "Ok"

\* C2: in the poll cycle in which an operand's failure first becomes
\* observable, poll returns failure, on the Small and on the Big path, even
\* when operands (also of lower index) are still pending.
C2_FailsImmediately ==
    Failing # {} =>
        \A k \in 1..Len(hist) : k = FirstFailCycle + 1 => hist[k].tag = "Err"

\* C2 witness: the Small path reported failure in a cycle in which the operand
\* at position 1 was still pending.
C2_Witness ==
    /\ N >= 2 /\ kind.tag = "Small" /\ Failing # {}
    /\ ops[1].res = "Ok" /\ ops[1].at > FirstFailCycle
    /\ Len(hist) > FirstFailCycle /\ hist[FirstFailCycle + 1].tag = "Err"

\* C3: with a failing operand the final outcome is failure, carrying exactly
\* the error of the lowest-index operand failing in the earliest cycle in
\* which a failure is observable.
C3_FirstError ==
    Failing # {} =>
        /\ Len(hist) > FirstFailCycle => Finals # {}
        /\ Finals # {} => hist[FirstFinal] = ReadyErr(ops[FirstFailIdx].val)

\* C3 witness: two operands fail in the same cycle with different errors, a
\* third fails earlier-indexed but later in time, and the Small path reported.
C3_Witness ==
    /\ N = 3 /\ kind.tag = "Small" /\ Failing = {1, 2, 3}
    /\ ops[1].at > ops[2].at /\ ops[2].at = ops[3].at
    /\ ops[1].val # ops[2].val /\ ops[2].val # ops[3].val
    /\ Finals # {} /\ hist[FirstFinal].tag = "Err"

\* A size hint that selects the representation this TryJoinAll does not have.
OtherHint == IF kind.tag = "Small" THEN HintNone ELSE HintSome(SMALL)

\* C4: for the same operands and completion schedule, a size hint selecting
\* the other representation gives the poll outcomes observed here: pending
\* in the same cycles, then the same success sequence or the same error.
\* The two runs are compared once MaxPolls polls were made, which compares
\* every shorter run as well: each is a prefix of one of that length.
C4_Transparency ==
    LET other == try_join_all(ops, OtherHint)
    IN  /\ other.tag # kind.tag
        /\ Len(hist) = MaxPolls =>
              UpToFinal(Run(other, 0, Len(hist))) = UpToFinal(hist)

\* C4 witness: a Big-path run of three operands that was pending at least
\* once and then reported a failure while position 1 was still pending.
C4_Witness ==
    /\ N = 3 /\ kind.tag = "Big" /\ Failing # {}
    /\ ops[1].res = "Ok" /\ ops[1].at > FirstFailCycle
    /\ Finals # {} /\ FirstFinal >= 2 /\ Len(hist) = MaxPolls

\* C5: once poll has returned a final outcome, every later poll faults; it
\* never returns pending or another Ready result.
C5_FaultAfterFinal ==
    \A k \in 1..Len(hist) :
        (\E j \in 1..(k - 1) : IsFinal(hist[j])) => hist[k].tag = "Panic"

\* C6: poll returns success only for a batch whose operands have all resolved
\* successfully, with each operand's output once, in a sequence as long as the
\* operand count; and a failure carries no output sequence.
C6_SuccessMeansAll ==
    \A k \in 1..Len(hist) :
        /\ hist[k].tag = "Ok" =>
              /\ AllSucceed
              /\ \A i \in 1..N : ops[i].at <= k - 1
              /\ Len(hist[k].vals) = N
              /\ hist[k].vals = Outputs
        /\ hist[k].tag = "Err" => hist[k].vals = <<>>

\* C7: with zero operands the first poll returns success with an empty
\* output sequence.
C7_EmptySucceeds == N = 0 /\ Len(hist) >= 1 => hist[1] = ReadyOk(<<>>)

\* C7 witness: a Small TryJoinAll over no operands has been polled.
C7_Witness == N = 0 /\ kind.tag = "Small" /\ Len(hist) >= 1

\* C8: with one operand, each poll up to the cycle the operand resolves in
\* returns pending while the operand is pending, and in that cycle the
\* operand's error as failure or its value, alone, as success.
C8_SingleOperand ==
    N = 1 =>
        \A k \in 1..Len(hist) :
            /\ k - 1 < ops[1].at => hist[k] = Pending
            /\ k - 1 = ops[1].at =>
                  hist[k] = IF ops[1].res = "Ok" THEN ReadyOk(<<ops[1].val>>)
                            ELSE ReadyErr(ops[1].val)

\* C8 witness: a single operand on the Small path that was pending for a
\* cycle and has resolved.
C8_Witness ==
    /\ N = 1 /\ kind.tag = "Small" /\ ops[1].at >= 1
    /\ Len(hist) > ops[1].at

\* C9: the representation is Small exactly when the size hint has an upper
\* bound at or below SMALL, and it is still that after any polls.
C9_ModeFixed == kind.tag = "Small" <=> (hint.some /\ hint.max <= SMALL)

\* C9 witness: an upper bound of exactly SMALL chose Small, and polls to a
\* final outcome and beyond left it Small.
C9_Witness ==
    /\ hint = HintSome(SMALL) /\ kind.tag = "Small"
    /\ Finals # {} /\ Len(hist) > FirstFinal

\* C10: a ResultFuture built from a failure reports it exactly once: the first
\* poll returns Ready(Err(e)) with the original error, and every later poll
\* faults with "polled `ResultFuture` after completion".
C10_ErrOnce ==
    source.tag = "Err" =>
        \A k \in 1..Len(rhist) :
            hist = <<>> /\
            rhist[k] = IF k = 1 THEN RReadyErr(source.err)
                       ELSE RPanic("polled ResultFuture after completion")

\* C10 witness: a ResultFuture built from Err(9) polled at least three times.
C10_Witness == source = ResErr(9) /\ Len(rhist) >= 3

\* C11: a ResultFuture built from a success holding an operation forwards
\* every poll to it: pending exactly while the operation is pending,
\* Ready(Ok(v)) in the cycle the operation yields v, afterwards whatever the
\* operation answers; it never reports a failure and stays on the Ok side.
C11_ForwardsOk ==
    source.tag = "Ok" =>
        /\ inner.tag = "Ok"
        /\ inner.fut.terminated <=> Len(rhist) > source.fut.at
        /\ \A k \in 1..Len(rhist) :
              /\ k - 1 < source.fut.at => rhist[k] = RPending
              /\ k - 1 = source.fut.at => rhist[k] = RReadyOk(source.fut.val)
              /\ k - 1 > source.fut.at =>
                    rhist[k] \in {RPending, RReadyOk(source.fut.val),
                                  RPanic("operation polled after completion")}
              /\ rhist[k].tag # "Err"

\* C11 witness: a ResultFuture over an operation that was pending for a cycle
\* and then yielded its value.
C11_Witness ==
    /\ source.tag = "Ok" /\ source.fut.at >= 1
    /\ Len(rhist) > source.fut.at
    /\ rhist[source.fut.at + 1].tag = "Ok"

\* C19: is_terminated is true only once the ResultFuture has delivered its
\* final outcome; for one built from a failure and not yet polled it is
\* false; on the success side it is the operation's is_terminated.
C19_TerminatedMeansDelivered ==
    /\ is_terminated(inner) => \E k \in 1..Len(rhist) : rhist[k].tag \in {"Ok", "Err"}
    /\ source.tag = "Err" /\ rhist = <<>> => ~is_terminated(inner)
    /\ inner.tag = "Ok" => (is_terminated(inner) <=> inner.fut.terminated)

\* The slots whose operation poll k polled.
PolledIn(k) == {log[k].polled[j] : j \in 1..Len(log[k].polled)}
\* The operands that answer Err to a poll made by poll k (in cycle k - 1).
FailIn(k) == {i \in 1..N : ops[i].res = "Err" /\ ops[i].at <= k - 1}
\* The operands that answer Pending to a poll made by poll k.
PendingIn(k) == {i \in 1..N : ops[i].at > k - 1}

\* C12: a Small-path scan visits the slots in index order and stops at the
\* first slot that fails: its error is the outcome of the cycle, also when
\* lower-index slots answered pending in the scan, and no slot of higher index
\* is advanced, so a higher-index failure of the same cycle is not observed.
C12_StopsAtFirstFailure ==
    kind.tag = "Small" =>
        \A k \in 1..Len(hist) :
            LET pl == log[k].polled
                last == log[k].visited
            IN  /\ \A a \in 1..(Len(pl) - 1) : pl[a] < pl[a + 1]
                /\ log[k].state = "Error" =>
                      /\ last \in FailIn(k)
                      /\ pl # <<>> /\ pl[Len(pl)] = last
                      /\ \A i \in PolledIn(k) : i < last => i \notin FailIn(k)
                      /\ \A i \in PolledIn(k) : i <= last
                      /\ hist[k] = ReadyErr(ops[last].val)
                /\ log[k].state # "Error" /\ Finals \cap 1..(k - 1) = {} =>
                      log[k].visited = N

\* C12 witness: slot 1 answered pending, slot 2 failed and slot 3, failing
\* with another error in the same cycle, was not advanced.
C12_Witness ==
    /\ N = 3 /\ kind.tag = "Small" /\ Finals # {}
    /\ 1 \in PendingIn(FirstFinal)
    /\ {2, 3} \subseteq FailIn(FirstFinal)
    /\ ops[2].val # ops[3].val
    /\ log[FirstFinal].visited = 2

\* C13: the Small-path poll that reports failure releases every slot, and
\* from then on no operand is polled, no slot is visited or extracted, and no
\* output of an abandoned operand is produced.
C13_Abandonment ==
    kind.tag = "Small" =>
        \A k \in 1..Len(hist) :
            hist[k].tag = "Err" =>
                /\ kind.elems = <<>>
                /\ \A j \in (k + 1)..Len(hist) :
                      /\ log[j].polled = <<>> /\ log[j].visited = 0
                      /\ log[j].taken = <<>>
                      /\ hist[j].vals = <<>>

\* C13 witness: a failure was reported while slot 1 held an output and slot 3
\* was pending, and the future was polled again when operand 3 had resolved.
C13_Witness ==
    /\ N = 3 /\ kind.tag = "Small"
    /\ ops[1].res = "Ok" /\ ops[1].at = 0
    /\ ops[2].res = "Err" /\ ops[2].at = 1
    /\ ops[3].res = "Ok" /\ ops[3].at = 2
    /\ Len(hist) >= 4 /\ hist[2].tag = "Err"

\* C14: on the Small path each operation is polled at most once in a cycle,
\* and an operation whose slot has become Ready is not polled in any later
\* cycle.
C14_NoDoublePoll ==
    kind.tag = "Small" =>
        \A k \in 1..Len(hist) :
            LET pl == log[k].polled
            IN  /\ \A a, b \in 1..Len(pl) : a # b => pl[a] # pl[b]
                /\ \A i \in PolledIn(k) :
                      ops[i].res = "Ok" /\ ops[i].at <= k - 1 =>
                          \A j \in (k + 1)..Len(hist) : i \notin PolledIn(j)

\* C14 witness: slot 1 became Ready in the first cycle and the batch was
\* scanned twice more while slot 2 was pending.
C14_Witness ==
    /\ N >= 2 /\ kind.tag = "Small"
    /\ ops[1].res = "Ok" /\ ops[1].at = 0 /\ ops[2].at = 2
    /\ Len(hist) >= 3 /\ 1 \in PolledIn(1) /\ 2 \in PolledIn(3)

\* C15: a Small-path poll that returns not-yet-done leaves the batch intact:
\* as many slots, nothing extracted, a Ready slot unchanged, and the only
\* changes are Pending slots becoming Ready with the output of their
\* operation, which succeeded in this scan.
C15_PendingKeepsBatch ==
    [][(kind.tag = "Small" /\ hist' = Append(hist, Pending)) =>
          /\ Len(kind'.elems) = Len(kind.elems)
          /\ log'[Len(log')].taken = <<>>
          /\ \A i \in 1..Len(kind.elems) :
                /\ kind.elems[i].st = "Done" => kind'.elems[i] = kind.elems[i]
                /\ kind'.elems[i] # kind.elems[i] =>
                      /\ kind.elems[i].st = "Future"
                      /\ OpPoll(kind.elems[i].fut, Cycle) = PollOk(kind.elems[i].fut.val)
                      /\ kind'.elems[i] = SlotDone(kind.elems[i].fut.val)
                      /\ \E j \in 1..Len(log'[Len(log')].polled) :
                            log'[Len(log')].polled[j] = i]_vars

\* C15 witness: after two not-yet-done polls slot 1 holds the output it got
\* in the first, slot 2 the output it got in the second, slot 3 is pending.
C15_Witness ==
    /\ N = 3 /\ kind.tag = "Small" /\ Len(hist) = 2
    /\ hist[1] = Pending /\ hist[2] = Pending
    /\ ops[1].at = 0 /\ ops[2].at = 1
    /\ kind.elems[1] = SlotDone(ops[1].val)
    /\ kind.elems[2] = SlotDone(ops[2].val)
    /\ kind.elems[3].st = "Future"

\* C16: on the Small path take_output is called only on Ready slots, only by
\* a poll whose scan ended AllDone, and at most once per slot over all polls;
\* the unwrap never faults.
C16_ExtractionDiscipline ==
    kind.tag = "Small" =>
        \A k \in 1..Len(hist) :
            LET tk == log[k].taken
            IN  /\ tk # <<>> => log[k].state = "AllDone"
                /\ \A t \in 1..Len(tk) : tk[t].st = "Done"
                /\ hist[k].tag # "Panic"
                /\ \A j \in 1..(k - 1) : \A t \in 1..Len(tk) :
                      \A u \in 1..Len(log[j].taken) : log[j].taken[u].idx # tk[t].idx

\* C16 witness: three slots that became Ready in different cycles were
\* extracted by the poll that reported success, and the future was polled
\* again afterwards.
C16_Witness ==
    /\ N = 3 /\ kind.tag = "Small" /\ Finals # {}
    /\ ops[1].at # ops[2].at /\ ops[2].at # ops[3].at /\ ops[1].at # ops[3].at
    /\ Len(log[FirstFinal].taken) = 3
    /\ Len(hist) > FirstFinal

\* C17: under a scheduler that keeps polling, with operands that all resolve,
\* the TryJoinAll eventually returns a final outcome, on either path.
C17_EventuallyFinal == <>(Finals # {})

\* C17 witness: a final outcome returned after at least two not-yet-done
\* polls.
C17_Witness == Finals # {} /\ FirstFinal >= 3 /\ N >= 2

\* C18: a Small-path poll returns not-yet-done only when some slot answered
\* pending in its scan and none failed; success is reported by the poll of the
\* cycle in which the last operand resolves.
C18_Prompt ==
    kind.tag = "Small" =>
        \A k \in 1..Len(hist) :
            /\ hist[k] = Pending =>
                  /\ log[k].state = "Pending"
                  /\ PolledIn(k) \cap PendingIn(k) # {}
                  /\ PolledIn(k) \cap FailIn(k) = {}
            /\ AllSucceed /\ k - 1 = LastAt => hist[k] = ReadyOk(Outputs)

\* C18 witness: three operands, the last of which resolved in cycle 2, joined
\* by the third poll.
C18_Witness ==
    /\ N = 3 /\ kind.tag = "Small" /\ AllSucceed /\ LastAt = 2
    /\ ops[1].at = 2 /\ ops[3].at = 0
    /\ Len(hist) >= 3 /\ hist[3].tag = "Ok"

=============================================================================
